---------------------------- MODULE Spec2Model ----------------------------
(***************************************************************************)
(* A model of the okteto stack compiler:                                   *)
(*   src/pkg/model/stack.go   ReadStack's defaulting pass, Stack.validate, *)
(*                            Stack.UpdateNamespace                        *)
(*   src/unnamed/part_000     translate (translateStackEnvVars,            *)
(*                            translateBuildImages) and the translators    *)
(*                                                                         *)
(* Go strings whose content the code inspects are sequences of tokens: a   *)
(* name is the sequence of its characters, an image or a path the sequence *)
(* of its parts ("okteto.dev" is always one token, so is "/" and ":").     *)
(* fmt.Sprintf is the concatenation of the tokens.  A pointer or an        *)
(* optional value is a sequence of length 0 (nil) or 1.  A Go map is a     *)
(* function; a range over a map visits its keys in an order the model      *)
(* chooses freely.                                                         *)
(***************************************************************************)
EXTENDS Integers, Sequences, FiniteSets, TLC

VARIABLES
    s,                \* the *model.Stack the running call works on
    s0,               \* the stack as it was handed to the call
    pc,               \* position of the running call
    err,              \* the error the call returned (NoErr: nil)
    passes,           \* ReadStack: how often the defaulting pass has run
    prev,             \* ReadStack: the stack before the last defaulting pass
    nsArgs,           \* UpdateNamespace: the arguments of the calls so far
    files,            \* the file system: env file name -> parsed content
    forceBuild,       \* translate's forceBuild argument
    isOktetoCluster,  \* what build.GetBuildKitHost reports
    lookup,           \* registry.GetImageTagWithDigest's answer per service
    buildResp,        \* build.Run's answer per service
    todo,             \* keys the running range loop has not visited yet
    cur,              \* translateBuildImages: the service whose build is in flight
    building,         \* translateBuildImages: its local flag
    ctxDone,          \* the caller's context has been cancelled
    log,              \* the build.Run calls: <<"start"|"end", service>>
    run,              \* which of the two compilations is running
    first,            \* the outcome of the first compilation
    out               \* the outcome of the current compilation

vars == <<s, s0, pc, err, passes, prev, nsArgs, files, forceBuild,
          isOktetoCluster, lookup, buildResp, todo, cur, building, ctxDone,
          log, run, first, out>>

----------------------------------------------------------------------------
(* Bounds of the model *)

MaxCalls == 3      \* UpdateNamespace calls in one behaviour
MaxPasses == 2     \* applications of the defaulting pass

----------------------------------------------------------------------------
(* Sequences and orders *)

Range(q) == {q[i] : i \in DOMAIN q}

\* every order in which a range over a map with key set S can visit it
Perms(S) == {q \in [1..Cardinality(S) -> S] : Range(q) = S}

SeqsUpTo(S, n) == UNION {[1..k -> S] : k \in 0..n}

RECURSIVE Concat(_)
Concat(qs) == IF qs = <<>> THEN <<>> ELSE Head(qs) \o Concat(Tail(qs))

\* the byte order of the characters the model uses
Alphabet == <<"-", "0", "1", "A", "B", "C", "_", "a", "b", "c", "e", "f", "s">>

CharRank(c) == CHOOSE i \in DOMAIN Alphabet : Alphabet[i] = c

\* strings.Compare(a, b) < 0 on character sequences
RECURSIVE StrLess(_, _)
StrLess(a, b) ==
    IF b = <<>> THEN FALSE
    ELSE IF a = <<>> THEN TRUE
    ELSE IF Head(a) # Head(b) THEN CharRank(Head(a)) < CharRank(Head(b))
    ELSE StrLess(Tail(a), Tail(b))

HasPrefix(str, tok) == Len(str) > 0 /\ str[1] = tok
HasSuffix(str, tok) == Len(str) > 0 /\ str[Len(str)] = tok
Contains(str, tok) == \E i \in DOMAIN str : str[i] = tok

----------------------------------------------------------------------------
(* Errors *)

NoErr == [sentinel |-> "", fmt |-> "", args |-> <<>>]

\* fmt.Errorf with %s and %d verbs only: a new error that wraps nothing
Errorf(format, args) == [sentinel |-> "", fmt |-> format, args |-> args]

ErrNotFound == [sentinel |-> "ErrNotFound", fmt |-> "not found", args |-> <<>>]
ErrTransport == [sentinel |-> "", fmt |-> "registry unreachable", args |-> <<>>]
ErrBuildFailed == [sentinel |-> "", fmt |-> "build failed", args |-> <<>>]
ErrCanceled == [sentinel |-> "context.Canceled", fmt |-> "context canceled", args |-> <<>>]
ErrNoBuildKit == [sentinel |-> "", fmt |-> "no buildkit host", args |-> <<>>]
ErrNoFile == [sentinel |-> "", fmt |-> "no such file", args |-> <<>>]

\* err.Error()
Message(e) == <<e.fmt>> \o Concat(e.args)

\* errors.Is(e, target)
ErrorsIs(e, target) == e.sentinel # "" /\ e.sentinel = target.sentinel

----------------------------------------------------------------------------
(* src/pkg/model/stack.go: the data model *)

Nil == <<>>

\* a resource.Quantity is the number it parses to; 0 is the unset quantity
NoQuantities == [CPU |-> 0, Memory |-> 0, Storage |-> [Size |-> 0, Class |-> ""]]

NoResources == [Limits |-> NoQuantities, Requests |-> NoQuantities]

EmptyService ==
    [Labels |-> <<>>, Annotations |-> <<>>, Public |-> FALSE, Image |-> <<>>,
     Build |-> Nil, Replicas |-> 0, Entrypoint |-> <<>>, Command |-> <<>>,
     Args |-> <<>>, Environment |-> <<>>, EnvFiles |-> <<>>, Ports |-> <<>>,
     Expose |-> <<>>, Volumes |-> <<>>, Resources |-> NoResources]

EmptyBuild == [Name |-> <<>>, Context |-> <<>>, Dockerfile |-> <<>>]

EmptyStack ==
    [Name |-> <<"s">>, Namespace |-> <<>>, Services |-> <<>>, Endpoints |-> <<>>]

\* a map with the one key k
Single(k, v) == [x \in {k} |-> v]

----------------------------------------------------------------------------
(* src/pkg/model/stack.go: ReadStack's defaulting pass *)

\* setBuildDefaults: an unset dockerfile is "Dockerfile" relative to the context
setBuildDefaults(b) ==
    IF b.Dockerfile = <<>>
    THEN [b EXCEPT !.Dockerfile = b.Context \o <<"/", "Dockerfile">>]
    ELSE b

\* lines 163-169: build.name migrates to build.context
defaultBuild(svc) ==
    IF svc.Build = Nil THEN svc
    ELSE LET b == svc.Build[1]
             m == IF b.Name # <<>>
                  THEN [b EXCEPT !.Context = b.Name, !.Name = <<>>]
                  ELSE b
         IN  [svc EXCEPT !.Build = <<setBuildDefaults(m)>>]

\* lines 170-172
defaultReplicas(svc) ==
    IF svc.Replicas = 0 THEN [svc EXCEPT !.Replicas = 1] ELSE svc

\* the swap with its two assignments in the other order: args gets the entrypoint
defaultEntrypoint_commandFirst(svc) ==
    IF Len(svc.Entrypoint) > 0
    THEN [svc EXCEPT !.Args = svc.Entrypoint, !.Command = svc.Entrypoint]
    ELSE svc

\* lines 173-177: the entrypoint/command/args swap
defaultEntrypoint(svc) ==
    IF Len(svc.Entrypoint) > 0
    THEN [svc EXCEPT !.Args = svc.Command, !.Command = svc.Entrypoint]
    ELSE svc

\* lines 178-180
defaultPublic(svc) ==
    IF Len(svc.Expose) > 0 /\ Len(svc.Ports) = 0
    THEN [svc EXCEPT !.Public = FALSE]
    ELSE svc

\* lines 182-184: expose is appended to ports
defaultPorts(svc) ==
    IF Len(svc.Expose) > 0
    THEN [svc EXCEPT !.Ports = svc.Ports \o svc.Expose]
    ELSE svc

\* one iteration of the loop of lines 162-187
defaultService(svc) ==
    defaultPorts(defaultPublic(defaultEntrypoint(defaultReplicas(defaultBuild(svc)))))

\* the loop of lines 162-187: every service is replaced by its defaulted copy; no
\* iteration reads what another wrote, so the order of the range does not matter
readStackDefaults(st) ==
    [st EXCEPT !.Services = [n \in DOMAIN st.Services |-> defaultService(st.Services[n])]]

----------------------------------------------------------------------------
(* src/pkg/model/stack.go: Stack.validate *)

\* the characters of [a-z0-9\-] among those of Alphabet
KubeNameChars == {"-", "0", "1", "a", "b", "c", "s"}

\* ValidKubeNameRegex.MatchString: the name holds a character outside [a-z0-9\-]
ValidKubeNameRegexMatch(name) == \E i \in DOMAIN name : name[i] \notin KubeNameChars

errBadStackName == "must consist of lower case alphanumeric characters or '-', and must start and end with an alphanumeric character"

validateStackName(name) ==
    IF name = <<>> THEN Errorf("name cannot be empty", <<>>)
    ELSE IF ValidKubeNameRegexMatch(name) THEN Errorf(errBadStackName, <<>>)
    ELSE IF HasPrefix(name, "-") \/ HasSuffix(name, "-") THEN Errorf(errBadStackName, <<>>)
    ELSE NoErr

IsPortInService(port, portList) == \E i \in DOMAIN portList : portList[i] = port

\* the keys S in ascending byte order
SortedKeys(S) == CHOOSE q \in Perms(S) : \A i, j \in DOMAIN q : i < j => StrLess(q[i], q[j])

\* the first error of a sequence of results, nil when there is none
FirstErr(es) ==
    IF \A i \in DOMAIN es : es[i] = NoErr THEN NoErr
    ELSE es[CHOOSE i \in DOMAIN es : es[i] # NoErr /\ \A j \in 1..(i-1) : es[j] = NoErr]

\* lines 201-205: one endpoint
validateEndpoint(st, endpointName, endpoint) ==
    IF endpoint.Service \notin DOMAIN st.Services
    THEN Errorf("Invalid endpoint '%s': service '%s' does not exist.",
                <<endpointName, endpoint.Service>>)
    ELSE IF IsPortInService(endpoint.Port, st.Services[endpoint.Service].Ports)
    THEN Errorf("Invalid endpoint '%s': service '%s' does not have port '%d'.",
                <<endpointName, endpoint.Service, <<ToString(endpoint.Port)>>>>)
    ELSE NoErr

\* lines 216-223: one volume
validateVolume(name, v) ==
    IF ~HasPrefix(v, "/")
    THEN Errorf("Invalid volume '%s' in service '%s': must be an absolute path", <<v, name>>)
    ELSE IF Contains(v, ":")
    THEN Errorf("Invalid volume '%s' in service '%s': volume bind mounts are not supported", <<v, name>>)
    ELSE NoErr

\* lines 210-223: one service
validateService(st, name) ==
    LET svc == st.Services[name] IN
    IF validateStackName(name) # NoErr
    THEN Errorf("Invalid service name '%s': %s", <<name, Message(validateStackName(name))>>)
    ELSE IF svc.Image = <<>> /\ svc.Build = Nil
    THEN Errorf("Invalid service '%s': image cannot be empty", <<name>>)
    ELSE FirstErr([i \in DOMAIN svc.Volumes |-> validateVolume(name, svc.Volumes[i])])

\* Stack.validate, the two ranges visiting their maps in the orders given
validate(st, endpointOrder, serviceOrder) ==
    IF validateStackName(st.Name) # NoErr
    THEN Errorf("Invalid stack name: %s", <<Message(validateStackName(st.Name))>>)
    ELSE IF DOMAIN st.Services = {}
    THEN Errorf("Invalid stack: 'services' cannot be empty", <<>>)
    ELSE LET e == FirstErr([i \in DOMAIN endpointOrder |->
                      FirstErr([j \in DOMAIN st.Endpoints[endpointOrder[i]] |->
                          validateEndpoint(st, endpointOrder[i], st.Endpoints[endpointOrder[i]][j])])])
         IN  IF e # NoErr THEN e
             ELSE FirstErr([i \in DOMAIN serviceOrder |-> validateService(st, serviceOrder[i])])

----------------------------------------------------------------------------
(* src/pkg/model/stack.go: Stack.UpdateNamespace *)

\* the error UpdateNamespace(namespace) returns on stack st
updateNamespaceErr(st, namespace) ==
    IF namespace = <<>> THEN NoErr
    ELSE IF st.Namespace # <<>> /\ st.Namespace # namespace
    THEN Errorf("the namespace in the okteto stack manifest '%s' does not match the namespace '%s'",
                <<st.Namespace, namespace>>)
    ELSE NoErr

\* UpdateNamespace without the conflict check of line 256
updateNamespace_overwrites(st, namespace) ==
    IF namespace = <<>> THEN st ELSE [st EXCEPT !.Namespace = namespace]

\* the stack UpdateNamespace(namespace) leaves
updateNamespace(st, namespace) ==
    IF namespace = <<>> THEN st
    ELSE IF st.Namespace # <<>> /\ st.Namespace # namespace THEN st
    ELSE [st EXCEPT !.Namespace = namespace]

----------------------------------------------------------------------------
(* src/unnamed/part_000: translateStackEnvVars *)

EnvVar(name, value) == [Name |-> name, Value |-> value]

EnvNames(env) == {env[i].Name : i \in DOMAIN env}

\* the delete loop left out: every key of the file stays
remainingKeys_noDelete(svc, envMap) == DOMAIN envMap

\* lines 104-106: the keys of envMap left after the names of svc.Environment are deleted
remainingKeys(svc, envMap) == DOMAIN envMap \ EnvNames(svc.Environment)

\* lines 108-113: the range over envMap visits the keys left in the order given
appendEnvMap(svc, envMap, order) ==
    [svc EXCEPT !.Environment =
        @ \o [i \in DOMAIN order |-> EnvVar(order[i], envMap[order[i]])]]

\* translateServiceEnvFile: its possible outcomes [svc, err], one for every order in
\* which the range of line 108 may visit the map
translateServiceEnvFile(svc, filename) ==
    LET f == files[filename] IN
    IF f.state = "missing" THEN {[svc |-> svc, err |-> ErrNoFile]}
    ELSE IF f.state = "malformed"
    THEN {[svc |-> svc,
           err |-> Errorf("error parsing env_file %s: %s", <<<<filename>>, <<"parse error">>>>)]}
    ELSE {[svc |-> appendEnvMap(svc, f.env, order), err |-> NoErr] :
             order \in Perms(remainingKeys(svc, f.env))}

\* lines 72-76: the env files from the i-th on, in env_file order, stopping at the
\* first error
RECURSIVE translateEnvFilesFrom(_, _)
translateEnvFilesFrom(svc, i) ==
    IF i > Len(svc.EnvFiles) THEN {[svc |-> svc, err |-> NoErr]}
    ELSE UNION {IF r.err # NoErr THEN {r} ELSE translateEnvFilesFrom(r.svc, i + 1) :
                   r \in translateServiceEnvFile(svc, svc.EnvFiles[i])}

\* e inserted behind every element of the sorted q whose name is not greater
InsertStable(q, e) ==
    LET k == Cardinality({i \in DOMAIN q : ~StrLess(e.Name, q[i].Name)})
    IN  SubSeq(q, 1, k) \o <<e>> \o SubSeq(q, k + 1, Len(q))

RECURSIVE SortStable(_)
SortStable(q) ==
    IF q = <<>> THEN <<>>
    ELSE InsertStable(SortStable(SubSeq(q, 1, Len(q) - 1)), q[Len(q)])

\* the sort left out
sortEnvironment_unsorted(env) == env

\* lines 77-79: sort.SliceStable by name
sortEnvironment(env) == SortStable(env)

\* lines 68-81: one iteration of the loop, its possible outcomes.  The strings of
\* the model hold no variable reference, so model.ExpandEnv leaves them as they are.
translateServiceEnv(svc) ==
    {IF r.err # NoErr THEN r
     ELSE [svc |-> [r.svc EXCEPT !.Environment = sortEnvironment(@), !.EnvFiles = <<>>],
           err |-> NoErr] :
        r \in translateEnvFilesFrom(svc, 1)}

----------------------------------------------------------------------------
(* src/unnamed/part_000: translateBuildImages *)

LastBuiltAnnotation == "dev.okteto.com/last-built"

\* time.Now().UTC().Format(labels.TimeFormat), the clock being fixed
Now == <<"2020-01-01T00:00:00.000Z">>

\* line 132
managedImage(stackName, name) ==
    <<"okteto.dev", "/">> \o stackName \o <<"-">> \o name \o <<":okteto">>

\* lines 131-133: the image the lookup and the build are for
targetImage(st, name, managed) ==
    IF managed /\ ~HasPrefix(st.Services[name].Image, "okteto.dev")
    THEN managedImage(st.Name, name)
    ELSE st.Services[name].Image

\* the error registry.GetImageTagWithDigest returns: nil when the image is found;
\* a call under a cancelled context fails with the context's error
lookupErr(answer, cancelled) ==
    IF cancelled THEN ErrCanceled
    ELSE IF answer = "found" THEN NoErr
    ELSE IF answer = "notfound" THEN ErrNotFound
    ELSE ErrTransport

\* the error build.Run returns; a build under a cancelled context fails with the
\* context's error
buildErr(answer, cancelled) ==
    IF cancelled THEN ErrCanceled
    ELSE IF answer = "ok" THEN NoErr
    ELSE ErrBuildFailed

\* the lookup's answer ignored: every service with a build spec is built
skipsBuild_never(force, e) == FALSE

\* lines 134-138: the build is skipped
skipsBuild(force, e) == ~force /\ e # ErrNotFound

\* Service.SetLastBuiltAnnotation
SetLastBuiltAnnotation(svc) ==
    [svc EXCEPT !.Annotations =
        [k \in DOMAIN svc.Annotations \cup {LastBuiltAnnotation} |->
            IF k = LastBuiltAnnotation THEN Now ELSE svc.Annotations[k]]]

----------------------------------------------------------------------------
(* src/unnamed/part_000: the translators *)

StackNameLabel == "stack.okteto.com/name"
StackServiceNameLabel == "stack.okteto.com/service"
OktetoAutoIngressAnnotation == "dev.okteto.com/auto-ingress"
pvcName == "pvc"

\* m[k] = v on a Go map
Put(m, k, v) == [x \in DOMAIN m \cup {k} |-> IF x = k THEN v ELSE m[x]]

\* the range of lines 355-357 copies the user's labels over m, in any order: the
\* keys are distinct, so every order leaves the same map
PutAll(m, labels) ==
    [x \in DOMAIN m \cup DOMAIN labels |-> IF x \in DOMAIN labels THEN labels[x] ELSE m[x]]

translateLabelSelector(svcName, st) ==
    Put(Single(StackNameLabel, st.Name), StackServiceNameLabel, svcName)

translateLabels(svcName, st) ==
    PutAll(Put(Single(StackNameLabel, st.Name), StackServiceNameLabel, svcName),
           st.Services[svcName].Labels)

translateAnnotations(svc) == PutAll(<<>>, svc.Annotations)

translateServiceType(svc) == IF svc.Public THEN "LoadBalancer" ELSE "ClusterIP"

translateVolumeMounts(svc) ==
    [i \in DOMAIN svc.Volumes |->
        [MountPath |-> svc.Volumes[i], Name |-> pvcName, SubPath |-> <<"data-", ToString(i - 1)>>]]

translateServiceEnvironment(svc) ==
    [i \in DOMAIN svc.Environment |->
        [Name |-> svc.Environment[i].Name, Value |-> svc.Environment[i].Value]]

translateContainerPorts(svc) ==
    [i \in DOMAIN svc.Ports |-> [ContainerPort |-> svc.Ports[i]]]

translateServicePorts(svc) ==
    [i \in DOMAIN svc.Ports |->
        [Name |-> <<"p-", ToString(svc.Ports[i])>>, Port |-> svc.Ports[i],
         TargetPort |-> svc.Ports[i]]]

\* translateResources: Limits is nil (<<>>) until an entry is written
translateResources(svc) ==
    LET r == svc.Resources
        l1 == IF r.Limits.CPU > 0 THEN Single("cpu", r.Limits.CPU) ELSE <<>>
        l2 == IF r.Limits.Memory > 0 THEN Put(l1, "memory", r.Limits.Memory) ELSE l1
        l3 == IF r.Requests.CPU > 0 THEN Single("cpu", r.Requests.CPU) ELSE l2
        l4 == IF r.Requests.Memory > 0 THEN Put(l3, "memory", r.Requests.Memory) ELSE l3
    IN  [Limits |-> l4, Requests |-> <<>>]

\* the service's container, lines 199-208 and 253-263
translateContainer(svcName, svc) ==
    [Name |-> svcName, Image |-> svc.Image, Command |-> svc.Command, Args |-> svc.Args,
     Env |-> translateServiceEnvironment(svc), Ports |-> translateContainerPorts(svc),
     Resources |-> translateResources(svc)]

translateDeployment(svcName, st) ==
    LET svc == st.Services[svcName] IN
    [Kind |-> "Deployment", Name |-> svcName, Namespace |-> st.Namespace,
     Labels |-> translateLabels(svcName, st),
     Annotations |-> translateAnnotations(svc),
     Replicas |-> svc.Replicas,
     Selector |-> translateLabelSelector(svcName, st),
     Container |-> translateContainer(svcName, svc)]

translateStatefulSet(name, st) ==
    LET svc == st.Services[name] IN
    [Kind |-> "StatefulSet", Name |-> name, Namespace |-> st.Namespace,
     Labels |-> translateLabels(name, st),
     Annotations |-> translateAnnotations(svc),
     Replicas |-> svc.Replicas,
     Selector |-> translateLabelSelector(name, st),
     Container |-> translateContainer(name, svc),
     VolumeMounts |-> translateVolumeMounts(svc)]

translateService(svcName, st) ==
    LET svc == st.Services[svcName] IN
    [Kind |-> "Service", Name |-> svcName, Namespace |-> st.Namespace,
     Labels |-> translateLabels(svcName, st),
     Annotations |-> IF svc.Public
                     THEN Put(translateAnnotations(svc), OktetoAutoIngressAnnotation, <<"true">>)
                     ELSE translateAnnotations(svc),
     Selector |-> translateLabelSelector(svcName, st),
     Type |-> translateServiceType(svc),
     Ports |-> translateServicePorts(svc)]

\* the resources of one service: a stateless workload when it declares no volume,
\* a stateful one otherwise, and its network object
translateResourcesOf(n, st) ==
    [workload |-> IF st.Services[n].Volumes = <<>>
                  THEN translateDeployment(n, st)
                  ELSE translateStatefulSet(n, st),
     service |-> translateService(n, st)]

----------------------------------------------------------------------------
(* The parts of the state a specification does not use *)

\* no compilation has finished
NoOutcome == [ok |-> FALSE, resources |-> <<>>]

StackIdle == passes = 0 /\ prev = EmptyStack /\ nsArgs = <<>>

TranslateIdle ==
    /\ files = <<>>
    /\ forceBuild = FALSE
    /\ isOktetoCluster = FALSE
    /\ lookup = <<>>
    /\ buildResp = <<>>
    /\ todo = {}
    /\ cur = Nil
    /\ building = FALSE
    /\ ctxDone = FALSE
    /\ log = <<>>
    /\ run = 1
    /\ first = NoOutcome
    /\ out = NoOutcome

translateVars == <<files, forceBuild, isOktetoCluster, lookup, buildResp, todo,
                   cur, building, ctxDone, log, run, first, out>>

----------------------------------------------------------------------------
(* SpecDefaults: ReadStack's defaulting pass, applied to a parsed manifest *)

ParsedBuilds ==
    {Nil,
     <<[Name |-> <<"ctx">>, Context |-> <<>>, Dockerfile |-> <<>>]>>,
     <<[Name |-> <<>>, Context |-> <<"app">>, Dockerfile |-> <<"app", "/", "Dockerfile.dev">>]>>}

ParsedServices ==
    {[EmptyService EXCEPT !.Image = <<"nginx">>, !.Build = b, !.Replicas = r,
                          !.Entrypoint = e, !.Command = c, !.Args = a,
                          !.Ports = p, !.Expose = x, !.Public = pub] :
        b \in ParsedBuilds, r \in {0, 2},
        e \in {<<>>, <<"run">>}, c \in {<<>>, <<"run">>, <<"sh">>}, a \in {<<>>, <<"-v">>},
        p \in {<<>>, <<80>>}, x \in {<<>>, <<80>>, <<81>>}, pub \in BOOLEAN}

InitDefaults ==
    /\ s \in {[EmptyStack EXCEPT !.Services = Single(<<"a">>, svc)] : svc \in ParsedServices}
    /\ s0 = s
    /\ pc = "parsed"
    /\ err = NoErr
    /\ passes = 0
    /\ prev = s
    /\ nsArgs = <<>>
    /\ TranslateIdle

\* lines 162-188 of stack.go, run once more on the stack they left
ReadStackPass ==
    /\ pc \in {"parsed", "defaulted"}
    /\ passes < MaxPasses
    /\ prev' = s
    /\ s' = readStackDefaults(s)
    /\ passes' = passes + 1
    /\ pc' = "defaulted"
    /\ UNCHANGED <<s0, err, nsArgs, translateVars>>

NextDefaults == ReadStackPass

SpecDefaults == InitDefaults /\ [][NextDefaults]_vars

----------------------------------------------------------------------------
(* SpecValidate: Stack.validate on a stack ReadStack has defaulted *)

Endpoint(svcName, port) == [Path |-> <<"/">>, Service |-> svcName, Port |-> port]

EndpointGroups ==
    {<<Endpoint(<<"a">>, 80)>>,
     <<Endpoint(<<"a">>, 81)>>,
     <<Endpoint(<<"b">>, 80)>>,
     <<Endpoint(<<"c">>, 80)>>,
     <<Endpoint(<<"a">>, 80), Endpoint(<<"c">>, 80)>>}

ManifestServices ==
    {[EmptyService EXCEPT !.Image = iv[1], !.Volumes = iv[2], !.Ports = px[1], !.Expose = px[2]] :
        iv \in {<<<<"nginx">>, <<>>>>,
                <<<<>>, <<>>>>,
                <<<<"nginx">>, <<<<"data", ":", "/", "data">>>>>>},
        px \in {<<<<>>, <<>>>>, <<<<80>>, <<>>>>, <<<<80>>, <<81>>>>}}

\* every map from a subset of the keys K to the values V
Maps(K, V) == UNION {[D -> V] : D \in SUBSET K}

Manifests ==
    {[EmptyStack EXCEPT !.Name = n, !.Services = sv, !.Endpoints = ep] :
        n \in {<<"s">>, <<>>, <<"-", "s">>},
        sv \in Maps({<<"a">>, <<"b">>}, ManifestServices),
        ep \in Maps({<<"e">>, <<"f">>}, EndpointGroups)}

InitValidate ==
    /\ s0 \in Manifests
    /\ s = readStackDefaults(s0)
    /\ pc = "defaulted"
    /\ err = NoErr
    /\ StackIdle
    /\ TranslateIdle

\* GetStack's call of s.validate(), line 118 of stack.go
Validate ==
    /\ pc = "defaulted"
    /\ \E endpointOrder \in Perms(DOMAIN s.Endpoints), serviceOrder \in Perms(DOMAIN s.Services) :
           err' = validate(s, endpointOrder, serviceOrder)
    /\ pc' = "validated"
    /\ UNCHANGED <<s, s0, passes, prev, nsArgs, translateVars>>

NextValidate == Validate

SpecValidate == InitValidate /\ [][NextValidate]_vars

----------------------------------------------------------------------------
(* SpecNamespace: a sequence of Stack.UpdateNamespace calls on one stack *)

Namespaces == {<<>>, <<"a">>, <<"b">>}

InitNamespace ==
    /\ s0 \in {[EmptyStack EXCEPT !.Namespace = n] : n \in Namespaces}
    /\ s = s0
    /\ pc = "ready"
    /\ err = NoErr
    /\ StackIdle
    /\ TranslateIdle

UpdateNamespace(namespace) ==
    /\ pc = "ready"
    /\ Len(nsArgs) < MaxCalls
    /\ err' = updateNamespaceErr(s, namespace)
    /\ s' = updateNamespace(s, namespace)
    /\ nsArgs' = Append(nsArgs, namespace)
    /\ UNCHANGED <<s0, pc, passes, prev, translateVars>>

NextNamespace == \E namespace \in Namespaces : UpdateNamespace(namespace)

SpecNamespace == InitNamespace /\ [][NextNamespace]_vars

----------------------------------------------------------------------------
(* Claims about src/pkg/model/stack.go *)

EndpointFormats ==
    {"Invalid endpoint '%s': service '%s' does not exist.",
     "Invalid endpoint '%s': service '%s' does not have port '%d'."}

\* the endpoints of group g that name no declared service
NoSuchService(st, g) ==
    {i \in DOMAIN st.Endpoints[g] : st.Endpoints[g][i].Service \notin DOMAIN st.Services}

\* the endpoints of group g whose service does not declare their port
NoSuchPort(st, g) ==
    {i \in DOMAIN st.Endpoints[g] :
        /\ st.Endpoints[g][i].Service \in DOMAIN st.Services
        /\ st.Endpoints[g][i].Port \notin Range(st.Services[st.Endpoints[g][i].Service].Ports)}

\* C2: for a stack with a valid name and at least one service, validate returns an
\* endpoint error exactly when some endpoint names a service that is not declared or
\* a port its service does not declare (after expose folding); and when the only bad
\* endpoints name undeclared services, the error names such an endpoint's group and
\* service.
C2_EndpointErrorIffBadEndpoint ==
    (pc = "validated" /\ validateStackName(s.Name) = NoErr /\ DOMAIN s.Services # {}) =>
        /\ (err.fmt \in EndpointFormats) <=>
               (\E g \in DOMAIN s.Endpoints : NoSuchService(s, g) \cup NoSuchPort(s, g) # {})
        /\ ((\E g \in DOMAIN s.Endpoints : NoSuchService(s, g) # {})
              /\ (\A g \in DOMAIN s.Endpoints : NoSuchPort(s, g) = {})) =>
               \E g \in DOMAIN s.Endpoints : \E i \in NoSuchService(s, g) :
                   err = Errorf("Invalid endpoint '%s': service '%s' does not exist.",
                                <<g, s.Endpoints[g][i].Service>>)

\* C5 as stated: the defaulting pass applied to an already-defaulted stack changes
\* no field of any service.
C5_DefaultingIdempotent == passes >= 2 => s = prev

\* C5 amended: the pass applied to an already-defaulted service leaves build,
\* replicas, command, public and every field it does not touch unchanged; it appends
\* expose to ports again, so ports stay the same exactly when expose is empty; and
\* the second application sets args to the entrypoint, so args stay the same exactly
\* when the entrypoint is empty or the manifest's command equals the entrypoint.
C5_SecondPassChangesOnlyArgsAndPorts ==
    passes >= 2 =>
        \A n \in DOMAIN s.Services :
            LET a == prev.Services[n]
                b == s.Services[n]
                m == s0.Services[n]
            IN  /\ [b EXCEPT !.Args = <<>>, !.Ports = <<>>] = [a EXCEPT !.Args = <<>>, !.Ports = <<>>]
                /\ (b.Ports = a.Ports) <=> (m.Expose = <<>>)
                /\ passes = 2 =>
                       ((b.Args = a.Args) <=> (m.Entrypoint = <<>> \/ m.Command = m.Entrypoint))

\* C5 witness: a second pass has run on a service with an entrypoint and an expose
\* list, and changed it
C5_Witness ==
    /\ passes = 2
    /\ s0.Services[<<"a">>].Entrypoint # <<>>
    /\ s0.Services[<<"a">>].Expose # <<>>
    /\ s.Services[<<"a">>].Args # prev.Services[<<"a">>].Args
    /\ s.Services[<<"a">>].Ports # prev.Services[<<"a">>].Ports

\* C10: once the namespace is non-empty no UpdateNamespace call changes it; a call
\* with a non-empty namespace other than the current non-empty one returns an error
\* and changes nothing; a call with the empty string or the current namespace
\* returns nil and changes nothing.
C10_NamespaceSetOnce ==
    [][/\ s.Namespace # <<>> => s'.Namespace = s.Namespace
       /\ nsArgs' # nsArgs =>
              LET namespace == nsArgs'[Len(nsArgs')] IN
              /\ (namespace # <<>> /\ s.Namespace # <<>> /\ namespace # s.Namespace) =>
                     (err' # NoErr /\ s' = s)
              /\ (namespace = <<>> \/ namespace = s.Namespace) =>
                     (err' = NoErr /\ s' = s)]_vars

\* C10 witness: the manifest had no namespace, a call set it and a later call with
\* another namespace was rejected
C10_Witness ==
    /\ s0.Namespace = <<>>
    /\ s.Namespace = <<"a">>
    /\ Len(nsArgs) >= 2
    /\ nsArgs[Len(nsArgs)] = <<"b">>
    /\ err # NoErr

----------------------------------------------------------------------------
(* src/unnamed/part_000: the steps of translate *)

\* translateStackEnvVars, one iteration of the range of line 67 over s.Services
EnvService(name) ==
    /\ pc = "env"
    /\ name \in todo
    /\ \E r \in translateServiceEnv(s.Services[name]) :
           IF r.err # NoErr
           THEN /\ err' = r.err
                /\ pc' = "done"
                /\ UNCHANGED <<s, todo>>
           ELSE /\ s' = [s EXCEPT !.Services[name] = r.svc]
                /\ todo' = todo \ {name}
                /\ UNCHANGED <<err, pc>>
    /\ UNCHANGED <<s0, passes, prev, nsArgs, files, forceBuild, isOktetoCluster, lookup,
                   buildResp, cur, building, ctxDone, log, run, first, out>>

\* translateStackEnvVars, line 83: the range is over
EnvReturn ==
    /\ pc = "env"
    /\ todo = {}
    /\ pc' = "envdone"
    /\ UNCHANGED <<s, s0, err, passes, prev, nsArgs, translateVars>>

\* translate line 62 and translateBuildImages lines 118-122
BuildImagesStart ==
    /\ pc = "envdone"
    /\ building' = FALSE
    /\ todo' = DOMAIN s.Services
    /\ pc' = "build"
    /\ UNCHANGED <<s, s0, err, passes, prev, nsArgs, files, forceBuild, isOktetoCluster,
                   lookup, buildResp, cur, ctxDone, log, run, first, out>>

\* translateBuildImages lines 118-121: build.GetBuildKitHost fails
BuildKitHostFails ==
    /\ pc = "envdone"
    /\ err' = ErrNoBuildKit
    /\ pc' = "done"
    /\ UNCHANGED <<s, s0, passes, prev, nsArgs, translateVars>>

\* translateBuildImages, one iteration of the range of line 124 up to its continue,
\* its return or its call of build.Run
BuildVisit(name) ==
    /\ pc = "build"
    /\ name \in todo
    /\ LET svc == s.Services[name]
           target == [svc EXCEPT !.Image = targetImage(s, name, isOktetoCluster)]
       IN  IF svc.Build = Nil
           THEN /\ todo' = todo \ {name}
                /\ UNCHANGED <<s, pc, err, cur, building, log>>
           ELSE IF ~isOktetoCluster /\ svc.Image = <<>>
           THEN /\ err' = Errorf("'build' and 'image' fields of service '%s' cannot be empty", <<name>>)
                /\ pc' = "done"
                /\ UNCHANGED <<s, todo, cur, building, log>>
           ELSE IF skipsBuild(forceBuild, lookupErr(lookup[name], ctxDone))
           THEN /\ s' = [s EXCEPT !.Services[name] = target]
                /\ todo' = todo \ {name}
                /\ UNCHANGED <<pc, err, cur, building, log>>
           ELSE /\ building' = TRUE
                /\ cur' = <<[name |-> name, svc |-> target]>>
                /\ log' = Append(log, <<"start", name>>)
                /\ pc' = "running"
                /\ UNCHANGED <<s, todo, err>>
    /\ UNCHANGED <<s0, passes, prev, nsArgs, files, forceBuild, isOktetoCluster, lookup,
                   buildResp, ctxDone, run, first, out>>

\* translateBuildImages lines 147-152: build.Run returns
BuildReturn ==
    /\ pc = "running"
    /\ LET name == cur[1].name
           e == buildErr(buildResp[name], ctxDone)
       IN  /\ log' = Append(log, <<"end", name>>)
           /\ cur' = Nil
           /\ IF e # NoErr
              THEN /\ err' = Errorf("error building image for '%s': %s", <<name, Message(e)>>)
                   /\ pc' = "done"
                   /\ UNCHANGED <<s, todo>>
              ELSE /\ s' = [s EXCEPT !.Services[name] = SetLastBuiltAnnotation(cur[1].svc)]
                   /\ todo' = todo \ {name}
                   /\ pc' = "build"
                   /\ UNCHANGED err
    /\ UNCHANGED <<s0, passes, prev, nsArgs, files, forceBuild, isOktetoCluster, lookup,
                   buildResp, building, ctxDone, run, first, out>>

\* translateBuildImages lines 155-159: the range is over
BuildImagesReturn ==
    /\ pc = "build"
    /\ todo = {}
    /\ pc' = "done"
    /\ UNCHANGED <<s, s0, err, passes, prev, nsArgs, translateVars>>

\* the caller cancels the context translate runs under
CancelCtx ==
    /\ pc \in {"build", "running"}
    /\ ~ctxDone
    /\ ctxDone' = TRUE
    /\ log' = Append(log, <<"cancel", <<>>>>)
    /\ UNCHANGED <<s, s0, pc, err, passes, prev, nsArgs, files, forceBuild, isOktetoCluster,
                   lookup, buildResp, todo, cur, building, run, first, out>>

----------------------------------------------------------------------------
(* SpecEnv: translateStackEnvVars on a validated stack *)

MaxEnvFiles == 2   \* env_file entries of a service

EnvFileNames == {"f1", "f2"}

\* what an env file holds: each value names its file
FileContents(filename) ==
    {[state |-> "missing", env |-> <<>>], [state |-> "malformed", env |-> <<>>]}
    \cup {[state |-> "ok", env |-> [k \in D |-> filename]] : D \in SUBSET {<<"A">>, <<"B">>}}

ExplicitEnvironments ==
    {<<>>,
     <<EnvVar(<<"A">>, "0")>>,
     <<EnvVar(<<"B">>, "0"), EnvVar(<<"A">>, "0")>>,
     <<EnvVar(<<"A">>, "0"), EnvVar(<<"A">>, "9")>>}

\* the service whose environment the claims are about
ResolvedServices ==
    {[EmptyService EXCEPT !.Image = <<"nginx">>, !.Environment = e, !.EnvFiles = f] :
        e \in ExplicitEnvironments, f \in SeqsUpTo(EnvFileNames, MaxEnvFiles)}

OtherService == [EmptyService EXCEPT !.Image = <<"nginx">>, !.EnvFiles = <<"f1">>]

EnvStacks ==
    {[EmptyStack EXCEPT !.Services = sv] :
        sv \in {Single(<<"a">>, a) : a \in ResolvedServices}
               \cup {[n \in {<<"a">>, <<"b">>} |-> IF n = <<"a">> THEN a ELSE OtherService] :
                        a \in ResolvedServices}}

InitEnv ==
    /\ s0 \in EnvStacks
    /\ s = s0
    /\ pc = "env"
    /\ err = NoErr
    /\ StackIdle
    /\ files \in [EnvFileNames -> UNION {FileContents(f) : f \in EnvFileNames}]
    /\ \A f \in EnvFileNames : files[f] \in FileContents(f)
    /\ forceBuild = FALSE
    /\ isOktetoCluster = FALSE
    /\ lookup = <<>>
    /\ buildResp = <<>>
    /\ todo = DOMAIN s0.Services
    /\ cur = Nil
    /\ building = FALSE
    /\ ctxDone = FALSE
    /\ log = <<>>
    /\ run = 1
    /\ first = NoOutcome
    /\ out = NoOutcome

NextEnv ==
    \/ \E name \in DOMAIN s.Services : EnvService(name)
    \/ EnvReturn

SpecEnv == InitEnv /\ [][NextEnv]_vars

----------------------------------------------------------------------------
(* SpecBuild: translateBuildImages on a stack whose environment is resolved *)

ABuild == [EmptyBuild EXCEPT !.Context = <<"app">>, !.Dockerfile = <<"app", "/", "Dockerfile">>]

\* validate has passed: a service has an image or a build
BuildServices ==
    {[EmptyService EXCEPT !.Image = i, !.Build = b] :
        i \in {<<>>, <<"nginx">>, <<"okteto.dev", "/", "app">>}, b \in {Nil, <<ABuild>>}}
    \ {EmptyService}

BuildNames(st) == {n \in DOMAIN st.Services : st.Services[n].Build # Nil}

InitBuild ==
    /\ s0 \in {[EmptyStack EXCEPT !.Services = sv] : sv \in [{<<"a">>, <<"b">>} -> BuildServices]}
    /\ s = s0
    /\ pc = "envdone"
    /\ err = NoErr
    /\ StackIdle
    /\ files = <<>>
    /\ forceBuild \in BOOLEAN
    /\ isOktetoCluster \in BOOLEAN
    /\ lookup \in [BuildNames(s0) -> {"found", "notfound", "error"}]
    /\ buildResp \in [BuildNames(s0) -> {"ok", "failed"}]
    /\ todo = DOMAIN s0.Services
    /\ cur = Nil
    /\ building = FALSE
    /\ ctxDone = FALSE
    /\ log = <<>>
    /\ run = 1
    /\ first = NoOutcome
    /\ out = NoOutcome

NextBuild ==
    \/ BuildImagesStart
    \/ BuildKitHostFails
    \/ \E name \in DOMAIN s.Services : BuildVisit(name)
    \/ BuildReturn
    \/ BuildImagesReturn
    \/ CancelCtx

SpecBuild == InitBuild /\ [][NextBuild]_vars

----------------------------------------------------------------------------
(* Claims about translateStackEnvVars, under SpecEnv *)

\* the positions in svc.EnvFiles of the files that define name k
Definers(svc, k) ==
    {i \in DOMAIN svc.EnvFiles :
        files[svc.EnvFiles[i]].state = "ok" /\ k \in DOMAIN files[svc.EnvFiles[i]].env}

\* the entries of env named k, in their order
Named(env, k) == SelectSeq(env, LAMBDA e : e.Name = k)

\* C3: when two env files of a service both define a name that its explicit
\* environment does not hold, the merged environment holds exactly one entry of that
\* name, with the value of the file declared last in env_file order.
C3_LastEnvFileWins ==
    \A n \in DOMAIN s.Services \ todo :
        \A k \in {<<"A">>, <<"B">>} \ EnvNames(s0.Services[n].Environment) :
            LET svc == s0.Services[n]
                d == Definers(svc, k)
            IN  (\E i, j \in d : svc.EnvFiles[i] # svc.EnvFiles[j]) =>
                    LET last == CHOOSE i \in d : \A j \in d : j <= i
                    IN  Named(s.Services[n].Environment, k)
                            = <<EnvVar(k, files[svc.EnvFiles[last]].env[k])>>

\* C4: for every name of a service's explicit environment the entries of that name
\* after resolution are the explicit ones, whatever the env files define (no
\* file-sourced entry of that name is added); and if the explicit names are unique,
\* the names of the merged environment are unique.
C4_ExplicitEnvironmentWins ==
    \A n \in DOMAIN s.Services \ todo :
        LET explicit == s0.Services[n].Environment
            merged == s.Services[n].Environment
        IN  /\ \A k \in EnvNames(explicit) : Named(merged, k) = Named(explicit, k)
            /\ Cardinality(EnvNames(explicit)) = Len(explicit) =>
                   Cardinality(EnvNames(merged)) = Len(merged)

\* C4 witness: service a declares A explicitly, two env files define A and B, and
\* the resolved environment keeps the explicit A beside a file-sourced B
C4_Witness ==
    /\ pc = "envdone"
    /\ s0.Services[<<"a">>].Environment = <<EnvVar(<<"A">>, "0")>>
    /\ s0.Services[<<"a">>].EnvFiles = <<"f1", "f2">>
    /\ \A f \in EnvFileNames : files[f].state = "ok" /\ DOMAIN files[f].env = {<<"A">>, <<"B">>}
    /\ s.Services[<<"a">>].Environment = <<EnvVar(<<"A">>, "0"), EnvVar(<<"B">>, "f1")>>

----------------------------------------------------------------------------
(* Claims about translateBuildImages, under SpecBuild *)

\* service n has a build spec and the registry holds its target image
Found(n) == ~forceBuild /\ n \in BuildNames(s0) /\ lookup[n] = "found"

Started(n) == \E i \in DOMAIN log : log[i] = <<"start", n>>

\* C1 as stated: with forceBuild=false, a service with a build spec whose registry
\* lookup finds the target image is never built, is not stamped with lastBuiltAt,
\* and keeps the image reference it had before the call.
C1_FoundImageLeftUnchanged ==
    \A n \in DOMAIN s.Services :
        Found(n) =>
            /\ ~Started(n)
            /\ s.Services[n].Annotations = s0.Services[n].Annotations
            /\ s.Services[n].Image = s0.Services[n].Image

\* C1 amended: such a service is never built and not stamped, and once the loop has
\* visited it its image reference is the target reference that was looked up: the
\* image it had, or okteto.dev/<stack>-<service>:okteto when the build target is a
\* managed cluster and the image does not start with okteto.dev.
C1_FoundImageIsTargetImage ==
    \A n \in DOMAIN s.Services :
        Found(n) =>
            /\ ~Started(n)
            /\ s.Services[n].Annotations = s0.Services[n].Annotations
            /\ s.Services[n].Image =
                   IF n \in todo THEN s0.Services[n].Image
                   ELSE IF isOktetoCluster /\ ~HasPrefix(s0.Services[n].Image, "okteto.dev")
                   THEN <<"okteto.dev", "/">> \o s0.Name \o <<"-">> \o n \o <<":okteto">>
                   ELSE s0.Services[n].Image

\* C1 witness: on a managed cluster the call has returned nil, service a's image
\* was found and skipped (its reference rewritten), service b was built
C1_Witness ==
    /\ pc = "done"
    /\ err = NoErr
    /\ isOktetoCluster
    /\ Found(<<"a">>)
    /\ s0.Services[<<"a">>].Image = <<"nginx">>
    /\ s.Services[<<"a">>].Image = <<"okteto.dev", "/", "s", "-", "a", ":okteto">>
    /\ Started(<<"b">>)
    /\ LastBuiltAnnotation \in DOMAIN s.Services[<<"b">>].Annotations

\* C8: the build.Run calls happen one at a time and in ascending order of service
\* name: of two builds the earlier one is of the smaller name and has returned
\* before the later one starts.
C8_BuildsSequentialInNameOrder ==
    \A i, j \in DOMAIN log :
        (i < j /\ log[i][1] = "start" /\ log[j][1] = "start") =>
            /\ StrLess(log[i][2], log[j][2])
            /\ \E k \in (i+1)..(j-1) : log[k] = <<"end", log[i][2]>>

\* the context was cancelled while a build.Run call was in flight
CancelledInFlight ==
    \E i \in DOMAIN log : i > 1 /\ log[i][1] = "cancel" /\ log[i-1][1] = "start"

\* C9: if the context is cancelled while a build is in flight, no build is started
\* for a further service, and the error translateBuildImages returns is a
\* cancellation error (errors.Is(err, context.Canceled)), not the generic
\* build-failure error.
C9_CancellationErrorPropagated ==
    CancelledInFlight =>
        /\ \A i, j \in DOMAIN log : (log[i][1] = "cancel" /\ log[j][1] = "start") => j < i
        /\ pc = "done" => ErrorsIs(err, ErrCanceled)

----------------------------------------------------------------------------
(* SpecCompile: a stack compiled twice (translate, then the translators) under *)
(* the same files, clock and collaborator answers                              *)

\* the translators, applied once translate has returned: no resource is emitted
\* when it returned an error
Translate ==
    /\ pc = "done"
    /\ out' = IF err = NoErr
              THEN [ok |-> TRUE,
                    resources |-> [n \in DOMAIN s.Services |-> translateResourcesOf(n, s)]]
              ELSE NoOutcome
    /\ pc' = "translated"
    /\ UNCHANGED <<s, s0, err, passes, prev, nsArgs, files, forceBuild, isOktetoCluster,
                   lookup, buildResp, todo, cur, building, ctxDone, log, run, first>>

\* the same stack is compiled again
Recompile ==
    /\ pc = "translated"
    /\ run = 1
    /\ first' = out
    /\ run' = 2
    /\ s' = s0
    /\ err' = NoErr
    /\ todo' = DOMAIN s0.Services
    /\ building' = FALSE
    /\ log' = <<>>
    /\ out' = NoOutcome
    /\ pc' = "env"
    /\ UNCHANGED <<s0, passes, prev, nsArgs, files, forceBuild, isOktetoCluster, lookup,
                   buildResp, cur, ctxDone>>

UserLabels ==
    {<<>>, Single("tier", <<"b">>), Single(StackNameLabel, <<"c">>)}

CompileServicesA ==
    {[EmptyService EXCEPT !.Image = ib[1], !.Build = ib[2], !.Replicas = 1,
                          !.Environment = e, !.EnvFiles = f, !.Labels = l] :
        ib \in {<<<<"nginx">>, Nil>>, <<<<>>, <<ABuild>>>>, <<<<"nginx">>, <<ABuild>>>>},
        e \in {<<>>, <<EnvVar(<<"B">>, "0"), EnvVar(<<"A">>, "0")>>},
        f \in {<<"f1">>, <<"f1", "f2">>},
        l \in UserLabels}

CompileServicesB ==
    {[EmptyService EXCEPT !.Image = ib[1], !.Build = ib[2], !.Replicas = 1,
                          !.EnvFiles = f, !.Volumes = v, !.Ports = <<80>>] :
        ib \in {<<<<"nginx">>, Nil>>, <<<<>>, <<ABuild>>>>},
        f \in {<<>>, <<"f2">>},
        v \in {<<>>, <<<<"/", "data">>>>}}

InitCompile ==
    /\ s0 \in {[EmptyStack EXCEPT !.Services =
                   [n \in {<<"a">>, <<"b">>} |-> IF n = <<"a">> THEN a ELSE b]] :
                  a \in CompileServicesA, b \in CompileServicesB}
    /\ s = s0
    /\ pc = "env"
    /\ err = NoErr
    /\ StackIdle
    /\ files \in {[f \in EnvFileNames |->
                      [state |-> IF f = "f2" THEN st2 ELSE "ok",
                       env |-> [k \in {<<"A">>, <<"B">>} |-> f]]] : st2 \in {"ok", "missing"}}
    /\ forceBuild \in BOOLEAN
    /\ isOktetoCluster \in BOOLEAN
    /\ lookup \in [BuildNames(s0) -> {"found", "notfound"}]
    /\ buildResp \in [BuildNames(s0) -> {"ok", "failed"}]
    /\ todo = DOMAIN s0.Services
    /\ cur = Nil
    /\ building = FALSE
    /\ ctxDone = FALSE
    /\ log = <<>>
    /\ run = 1
    /\ first = NoOutcome
    /\ out = NoOutcome

NextCompile ==
    \/ \E name \in DOMAIN s.Services : EnvService(name)
    \/ EnvReturn
    \/ BuildImagesStart
    \/ \E name \in DOMAIN s.Services : BuildVisit(name)
    \/ BuildReturn
    \/ BuildImagesReturn
    \/ Translate
    \/ Recompile

SpecCompile == InitCompile /\ [][NextCompile]_vars

----------------------------------------------------------------------------
(* Claims about the compilation, under SpecCompile *)

\* C6: for a fixed stack, fixed env files, a fixed clock and fixed registry and
\* build answers, two compilations end alike, whatever order the ranges over
\* s.Services and over the parsed env files take: both fail or both succeed, and
\* when they succeed every service gets the same resources (image, environment in
\* the same order, labels, annotations, ports, volume mounts).
C6_CompilationDeterministic ==
    (run = 2 /\ pc = "translated") => out = first

\* C6 witness: the second compilation succeeded, it built b before a, and a's
\* environment holds the two entries of env file f1
C6_Witness ==
    /\ run = 2
    /\ pc = "translated"
    /\ out.ok
    /\ first.ok
    /\ log = <<<<"start", <<"b">>>>, <<"end", <<"b">>>>, <<"start", <<"a">>>>, <<"end", <<"a">>>>>>
    /\ out.resources[<<"a">>].workload.Container.Env
           = <<[Name |-> <<"A">>, Value |-> "f1"], [Name |-> <<"B">>, Value |-> "f1"]>>

\* C7: the labels translateLabels gives a service map the stack-name label to the
\* stack's name and the service-name label to the service's name, whatever labels
\* the user declares, and carry every other user label over.
C7_FixedLabelsNotOverridden ==
    (pc = "translated" /\ out.ok) =>
        \A n \in DOMAIN s.Services :
            LET labels == out.resources[n].workload.Labels
                user == s.Services[n].Labels
            IN  /\ labels[StackNameLabel] = s.Name
                /\ labels[StackServiceNameLabel] = n
                /\ \A k \in DOMAIN user \ {StackNameLabel, StackServiceNameLabel} :
                       labels[k] = user[k]

----------------------------------------------------------------------------
(* Further claims about translateBuildImages, under SpecBuild *)

\* C11: with forceBuild=false a registry lookup that fails with an error other than
\* NotFound makes translateBuildImages return an error at once: the loop never goes
\* on past that service as if its image had been found, and the call does not
\* return nil.
C11_LookupFailureIsAnError ==
    \A n \in DOMAIN s.Services :
        (/\ ~forceBuild
         /\ n \in BuildNames(s0)
         /\ lookup[n] = "error"
         /\ (isOktetoCluster \/ s0.Services[n].Image # <<>>)) =>
            /\ n \in todo
            /\ pc = "done" => err # NoErr

----------------------------------------------------------------------------
(* Further claims about Stack.validate, under SpecValidate *)

\* C12: the error validate returns is the same on every run: the one the scan of
\* the endpoint groups and of the services in ascending order of their keys finds
\* first, whatever order the ranges over the two maps take.
C12_ValidationErrorDeterministic ==
    pc = "validated" =>
        err = validate(s, SortedKeys(DOMAIN s.Endpoints), SortedKeys(DOMAIN s.Services))

----------------------------------------------------------------------------
(* SpecResources: translateResources on every combination of limits and requests *)

Quantities == {0, 1, 2}

ResourceStacks ==
    {[EmptyStack EXCEPT !.Services = Single(<<"a">>,
         [EmptyService EXCEPT !.Image = <<"nginx">>, !.Replicas = 1,
             !.Resources = [Limits |-> [NoQuantities EXCEPT !.CPU = lc, !.Memory = lm],
                            Requests |-> [NoQuantities EXCEPT !.CPU = rc, !.Memory = rm,
                                                              !.Storage.Size = st]]])] :
        lc \in Quantities, lm \in Quantities, rc \in Quantities, rm \in Quantities,
        st \in {0, 1}}

\* translate has returned nil
InitResources ==
    /\ s0 \in ResourceStacks
    /\ s = s0
    /\ pc = "done"
    /\ err = NoErr
    /\ StackIdle
    /\ TranslateIdle

NextResources == Translate

SpecResources == InitResources /\ [][NextResources]_vars

\* the limit and the request of service n for a resource
LimitOf(n, r) ==
    IF r = "cpu" THEN s.Services[n].Resources.Limits.CPU
    ELSE s.Services[n].Resources.Limits.Memory

RequestOf(n, r) ==
    IF r = "cpu" THEN s.Services[n].Resources.Requests.CPU
    ELSE s.Services[n].Resources.Requests.Memory

\* C13: translateResources emits a limits entry for CPU and for memory exactly when
\* the service's limit or its request for that resource is non-zero, with the
\* request's value when the request is non-zero and the limit's otherwise; the
\* requests section stays empty and limits never hold a storage entry.
C13_LimitsEntryIffNonZero ==
    pc = "translated" =>
        \A n \in DOMAIN s.Services :
            LET res == out.resources[n].workload.Container.Resources IN
            /\ \A r \in {"cpu", "memory"} :
                   /\ (r \in DOMAIN res.Limits) <=> (LimitOf(n, r) > 0 \/ RequestOf(n, r) > 0)
                   /\ r \in DOMAIN res.Limits =>
                          res.Limits[r] = IF RequestOf(n, r) > 0 THEN RequestOf(n, r)
                                          ELSE LimitOf(n, r)
            /\ res.Requests = <<>>
            /\ "storage" \notin DOMAIN res.Limits

=============================================================================
